---- MODULE Spec2Model ----
(***************************************************************************)
(* Model of the sodium electrolysis plant simulator: the electrical-limit  *)
(* solver (electrical_model.py), the electrode wear model                  *)
(* (electrode_model.py), the Faraday/finance arithmetic (sodium_logic.py), *)
(* the per-step orchestrator SodiumPlant.step (plant_model.py), its        *)
(* visualization sink (freecad_interface.py) and the request handlers of   *)
(* the web API (api_server.py).                                            *)
(*                                                                         *)
(* Python floats are modelled as rationals [n, d] in lowest terms with     *)
(* d > 0, so that equality of values is equality of records.  Arithmetic   *)
(* is exact while the terms fit in 32 bits and otherwise rounds its        *)
(* operands toward zero to decimal fractions of six to nine significant    *)
(* digits.                                                                 *)
(***************************************************************************)
EXTENDS Integers, Sequences, FiniteSets, TLC

VARIABLES cfg, state, op, elec_state, result, FreeCAD,
          _plant, _current_a, _dt_hours,
          run, requests, plants

vars == <<cfg, state, op, elec_state, result, FreeCAD, _plant, _current_a, _dt_hours, run, requests, plants>>

\* The module globals of api_server.py.
api_vars == <<_plant, _current_a, _dt_hours>>

\* The frame of a run loop (process_mvp.run_mvp, MainWindow.on_run_clicked),
\* and the request handlers in flight in the API server's worker threads with
\* the SodiumPlant objects they hold.
caller_vars == <<run, requests, plants>>

----------------------------------------------------------------------------
(* Exact rational arithmetic standing for float arithmetic.                *)

Abs(x) == IF x < 0 THEN -x ELSE x

RECURSIVE GCD(_, _)
GCD(a, b) == IF b = 0 THEN a ELSE GCD(b, a % b)

\* n/d with both divided by g, the denominator made positive.
QBy(n, d, g) ==
    IF d < 0
    THEN [n |-> -(n \div g), d |-> -(d \div g)]
    ELSE [n |-> n \div g, d |-> d \div g]

\* The rational n/d (d # 0) in lowest terms with a positive denominator.
Q(n, d) == QBy(n, d, GCD(Abs(n), Abs(d)))

Num(n) == [n |-> n, d |-> 1]

Zero == Num(0)
One == Num(1)

\* The product x * y lies within the integer range, whose largest value is
\* 2^31 - 1.
Fits(x, y) == y = 0 \/ (IF x < 0 THEN -x ELSE x) <= 2147483647 \div (IF y < 0 THEN -y ELSE y)

\* A float carries a bounded number of significant digits and rounds what
\* does not fit. The model keeps a value exact while the integers of its
\* arithmetic stay within range, and otherwise rounds the operands toward
\* zero to decimal fractions [n, d] with d a power of ten.

\* The digits of r/d (0 <= r < d <= 10^8) appended to p/pow while the
\* numerator and the denominator stay within lim and pow below maxpow.
RECURSIVE Expand(_, _, _, _, _, _)
Expand(p, pow, r, d, lim, maxpow) ==
    IF pow >= maxpow \/ pow > lim \div 10 \/ p > (lim - 9) \div 10
    THEN [n |-> p, d |-> pow]
    ELSE Expand(p * 10 + (r * 10) \div d, pow * 10, (r * 10) % d, d, lim, maxpow)

\* n/d with both scaled down until the denominator is at most 10^8.
RECURSIVE Shrink(_, _)
Shrink(n, d) ==
    IF d > 100000000 THEN Shrink(n \div 10, d \div 10) ELSE [n |-> n, d |-> d]

\* The decimal expansion of s = [n, d], n >= 0.
ExpandFrom(s, lim, maxpow) == Expand(s.n \div s.d, 1, s.n % s.d, s.d, lim, maxpow)

\* e, or -e if negative.
Signed(negative, e) == [n |-> IF negative THEN -e.n ELSE e.n, d |-> e.d]

\* a rounded toward zero to a decimal fraction, not in lowest terms, whose
\* numerator and denominator are at most lim and whose denominator is at most
\* maxpow.
Decimal(a, lim, maxpow) ==
    Signed(a.n < 0, ExpandFrom(Shrink(Abs(a.n), a.d), lim, maxpow))

\* <<x, y, d>>, or <<y, x, d>> if swapped.
Triple(swapped, x, y, d) == IF swapped THEN <<y, x, d>> ELSE <<x, y, d>>

\* The numerator of the decimal fraction e over the denominator d.
Over(e, d) == e.n * (d \div e.d)

\* The decimal fraction coarse and the value other over the denominator of
\* coarse.
AlignedTo(swapped, coarse, other, lim) ==
    Triple(swapped, coarse.n, Over(Decimal(other, lim, coarse.d), coarse.d), coarse.d)

\* The decimal fractions da of a and db of b over the coarser of their
\* denominators.
AlignedDecimals(a, b, da, db, lim) ==
    AlignedTo(da.d > db.d, IF da.d <= db.d THEN da ELSE db,
              IF da.d <= db.d THEN b ELSE a, lim)

\* a and b as decimal fractions <<n1, n2, d>> over one denominator.
Aligned(a, b, lim) ==
    AlignedDecimals(a, b, Decimal(a, lim, 1000000000), Decimal(b, lim, 1000000000), lim)

\* t[1]/t[3] + t[2]/t[3]
SumOver(t) == Q(t[1] + t[2], t[3])

AddRounded(a, b) == SumOver(Aligned(a, b, 1000000000))

\* The sum over the least common denominator g * (a.d / g) * (b.d / g),
\* rounded when that is out of range.
AddReduced(a, b, g) ==
    IF /\ Abs(a.n) <= (1073741823) \div (b.d \div g)
       /\ Abs(b.n) <= (1073741823) \div (a.d \div g)
       /\ Fits(a.d \div g, b.d)
    THEN Q(a.n * (b.d \div g) + b.n * (a.d \div g), (a.d \div g) * b.d)
    ELSE AddRounded(a, b)

Add(a, b) == AddReduced(a, b, GCD(a.d, b.d))

Neg(a) == [n |-> -a.n, d |-> a.d]

Sub(a, b) == Add(a, Neg(b))

\* The product with g1 cancelled between a.n and b.d and g2 between b.n and
\* a.d.
MulCross(a, b, g1, g2) ==
    [n |-> (a.n \div g1) * (b.n \div g2), d |-> (a.d \div g2) * (b.d \div g1)]

\* Cross-reduced product: the factors are in lowest terms, so is the result.
MulExact(a, b) == MulCross(a, b, GCD(Abs(a.n), b.d), GCD(Abs(b.n), a.d))

\* The larger of |a.n| and a.d.
Size(a) == IF a.n > a.d \/ -a.n > a.d THEN Abs(a.n) ELSE a.d

\* The decimal fraction e in lowest terms.
Lowest(e) == Q(e.n, e.d)

\* small, rounded if it is longer than half the integer width.
Shortened(small) ==
    IF Size(small) > 46340 THEN Lowest(Decimal(small, 46340, 10000)) ELSE small

\* The product of big, rounded to what s leaves of the integer width, and s.
MulShortened(big, s) ==
    MulExact(Lowest(Decimal(big, 2147483647 \div Size(s), 1000000000)), s)

\* The product of big and small in this order of size.
MulBySize(big, small) == MulShortened(big, Shortened(small))

MulRounded(a, b) ==
    MulBySize(IF Size(a) >= Size(b) THEN a ELSE b, IF Size(a) >= Size(b) THEN b ELSE a)

\* The cross-reduced product, rounded when it is out of range.
MulReduced(a, b, g1, g2) ==
    IF Fits(a.n \div g1, b.n \div g2) /\ Fits(a.d \div g2, b.d \div g1)
    THEN MulCross(a, b, g1, g2)
    ELSE MulRounded(a, b)

Mul(a, b) == MulReduced(a, b, GCD(Abs(a.n), b.d), GCD(Abs(b.n), a.d))

\* a / b for b # 0 (Python raises ZeroDivisionError otherwise).
Div(a, b) ==
    Mul(a, IF b.n < 0 THEN [n |-> -b.d, d |-> -b.n] ELSE [n |-> b.d, d |-> b.n])

\* t[1]/t[3] < t[2]/t[3]
FirstLess(t) == t[1] < t[2]

\* The comparison over the least common denominator, rounded when the cross
\* products are out of range.
LtReduced(a, b, g) ==
    IF Fits(a.n, b.d \div g) /\ Fits(b.n, a.d \div g)
    THEN a.n * (b.d \div g) < b.n * (a.d \div g)
    ELSE FirstLess(Aligned(a, b, 1000000000))

Lt(a, b) == LtReduced(a, b, GCD(a.d, b.d))

Le(a, b) == ~Lt(b, a)

Min(a, b) == IF Lt(b, a) THEN b ELSE a

Max(a, b) == IF Lt(a, b) THEN b ELSE a

----------------------------------------------------------------------------
(* electrode_model.py                                                      *)

\* ElectrodeConfig() with its default field values.
ElectrodeConfig ==
    [amp_hours_limit |-> Num(1000000),
     min_life_fraction_for_operation |-> Q(1, 10),
     resistance_multiplier_at_end_of_life |-> Num(2),
     efficiency_at_new |-> Q(90, 100),
     efficiency_at_end_of_life |-> Q(75, 100)]

\* ElectrodeState() with its default field values.
ElectrodeState == [cumulative_amp_hours |-> Zero, in_maintenance |-> FALSE]

\* remaining_life_fraction as it would be without the clamp into [0, 1].
remaining_life_fraction_unclamped(self, ecfg) ==
    IF Le(ecfg.amp_hours_limit, Zero)
    THEN One
    ELSE Sub(One, Div(self.cumulative_amp_hours, ecfg.amp_hours_limit))

remaining_life_fraction(self, ecfg) ==
    IF Le(ecfg.amp_hours_limit, Zero)
    THEN One
    ELSE LET frac == Sub(One, Div(self.cumulative_amp_hours, ecfg.amp_hours_limit))
         IN  Max(Zero, Min(One, frac))

effective_resistance_multiplier(self, ecfg) ==
    LET life == remaining_life_fraction(self, ecfg)
        end_mult == ecfg.resistance_multiplier_at_end_of_life
    IN  Add(One, Mul(Sub(One, life), Sub(end_mult, One)))

effective_efficiency(self, ecfg) ==
    LET life == remaining_life_fraction(self, ecfg)
        eff_new == ecfg.efficiency_at_new
        eff_end == ecfg.efficiency_at_end_of_life
    IN  Add(eff_end, Mul(Sub(eff_new, eff_end), life))

\* ElectrodeState.step as it would be with the strict comparison life < minimum.
ElectrodeState_step_strict(self, ecfg, current_a, dt_hours) ==
    IF self.in_maintenance \/ Le(dt_hours, Zero) \/ Le(current_a, Zero)
    THEN self
    ELSE LET worn == [self EXCEPT !.cumulative_amp_hours =
                          Add(self.cumulative_amp_hours, Mul(current_a, dt_hours))]
         IN  IF Lt(remaining_life_fraction(worn, ecfg),
                   ecfg.min_life_fraction_for_operation)
             THEN [worn EXCEPT !.in_maintenance = TRUE]
             ELSE worn

\* ElectrodeState.step as it would be if spent electrodes were replaced on the
\* spot instead of latching maintenance.
ElectrodeState_step_autoreplace(self, ecfg, current_a, dt_hours) ==
    IF self.in_maintenance \/ Le(dt_hours, Zero) \/ Le(current_a, Zero)
    THEN self
    ELSE LET worn == [self EXCEPT !.cumulative_amp_hours =
                          Add(self.cumulative_amp_hours, Mul(current_a, dt_hours))]
         IN  IF Le(remaining_life_fraction(worn, ecfg),
                   ecfg.min_life_fraction_for_operation)
             THEN [worn EXCEPT !.cumulative_amp_hours = Zero]
             ELSE worn

\* ElectrodeState.step as it would be without the guard on the sign of the
\* current.
ElectrodeState_step_signed(self, ecfg, current_a, dt_hours) ==
    IF self.in_maintenance \/ Le(dt_hours, Zero)
    THEN self
    ELSE LET worn == [self EXCEPT !.cumulative_amp_hours =
                          Add(self.cumulative_amp_hours, Mul(current_a, dt_hours))]
         IN  IF Le(remaining_life_fraction(worn, ecfg),
                   ecfg.min_life_fraction_for_operation)
             THEN [worn EXCEPT !.in_maintenance = TRUE]
             ELSE worn

\* ElectrodeState.step as it would be if it added the wear of half the
\* amp-hours up to the limit and none beyond it.
ElectrodeState_step_saturating(self, ecfg, current_a, dt_hours) ==
    IF self.in_maintenance \/ Le(dt_hours, Zero) \/ Le(current_a, Zero)
    THEN self
    ELSE LET worn == [self EXCEPT !.cumulative_amp_hours =
                          Min(Add(self.cumulative_amp_hours, Mul(current_a, dt_hours)),
                              Mul(ecfg.amp_hours_limit, Q(1, 2)))]
         IN  IF Le(remaining_life_fraction(worn, ecfg),
                   ecfg.min_life_fraction_for_operation)
             THEN [worn EXCEPT !.in_maintenance = TRUE]
             ELSE worn

\* ElectrodeState.step: the electrode state after the call.
ElectrodeState_step(self, ecfg, current_a, dt_hours) ==
    IF self.in_maintenance \/ Le(dt_hours, Zero) \/ Le(current_a, Zero)
    THEN self
    ELSE LET worn == [self EXCEPT !.cumulative_amp_hours =
                          Add(self.cumulative_amp_hours, Mul(current_a, dt_hours))]
         IN  IF Le(remaining_life_fraction(worn, ecfg),
                   ecfg.min_life_fraction_for_operation)
             THEN [worn EXCEPT !.in_maintenance = TRUE]
             ELSE worn

\* reset_after_maintenance as it would be if it only cleared the latch.
reset_after_maintenance_keep_wear(self) == [self EXCEPT !.in_maintenance = FALSE]

reset_after_maintenance(self) ==
    [self EXCEPT !.cumulative_amp_hours = Zero, !.in_maintenance = FALSE]

----------------------------------------------------------------------------
(* electrical_model.py                                                     *)

\* ElectricalConfig() with its default field values.
ElectricalConfig ==
    [max_dc_current_a |-> Num(100000),
     max_power_kw |-> Num(5000),
     base_cell_voltage_v |-> Num(6),
     base_current_a |-> Num(50000),
     cell_resistance_ohm |-> Q(1, 10000),
     min_cell_voltage_v |-> Num(4),
     max_cell_voltage_v |-> Num(9),
     rectifier_efficiency |-> Q(96, 100)]

\* The stages of compute_electrical_state pass its local variables on as
\* parameters, in the order the function assigns them.

\* enforce_power_limit as it would be if it only flagged the power limit,
\* without scaling the current and pinning the AC power.
enforce_power_limit_flag_only(requested_current_a, config, actual_current, v_cell, constrained, reason, dc_power_kw, ac_power_kw) ==
    [requested_current_a |-> requested_current_a,
     actual_current_a |-> actual_current,
     cell_voltage_v |-> v_cell,
     dc_power_kw |-> dc_power_kw,
     ac_power_kw |-> ac_power_kw,
     constrained |-> IF Lt(config.max_power_kw, ac_power_kw) THEN TRUE ELSE constrained,
     constraint_reason |->
         IF Lt(config.max_power_kw, ac_power_kw) THEN "power_limit" ELSE reason]

\* 4b) enforce the power limit and build the returned ElectricalState
enforce_power_limit(requested_current_a, config, actual_current, v_cell, constrained, reason, dc_power_kw, ac_power_kw) ==
    IF Lt(config.max_power_kw, ac_power_kw)
    THEN [requested_current_a |-> requested_current_a,
          actual_current_a |->
              Mul(actual_current, Div(config.max_power_kw, ac_power_kw)),
          cell_voltage_v |-> v_cell,
          dc_power_kw |-> Mul(dc_power_kw, Div(config.max_power_kw, ac_power_kw)),
          ac_power_kw |-> config.max_power_kw,
          constrained |-> TRUE,
          constraint_reason |-> "power_limit"]
    ELSE [requested_current_a |-> requested_current_a,
          actual_current_a |-> actual_current,
          cell_voltage_v |-> v_cell,
          dc_power_kw |-> dc_power_kw,
          ac_power_kw |-> ac_power_kw,
          constrained |-> constrained,
          constraint_reason |-> reason]

\* 4a) compute DC and AC power
compute_power(requested_current_a, config, actual_current, v_cell, constrained, reason) ==
    enforce_power_limit(
        requested_current_a, config, actual_current, v_cell, constrained, reason,
        Div(Mul(actual_current, v_cell), Num(1000)),
        Div(Div(Mul(actual_current, v_cell), Num(1000)),
            Max(config.rectifier_efficiency, Q(1, 1000000))))

\* enforce_voltage_limits as it would be if an earlier constraint reason were
\* kept (first write wins).
enforce_voltage_limits_keep_reason(requested_current_a, config, actual_current, constrained, reason, v_cell) ==
    IF Lt(v_cell, config.min_cell_voltage_v)
    THEN compute_power(requested_current_a, config, actual_current,
                       config.min_cell_voltage_v, TRUE,
                       IF reason = "none" THEN "voltage_limit" ELSE reason)
    ELSE IF Lt(config.max_cell_voltage_v, v_cell)
    THEN compute_power(requested_current_a, config, actual_current,
                       config.max_cell_voltage_v, TRUE,
                       IF reason = "none" THEN "voltage_limit" ELSE reason)
    ELSE compute_power(requested_current_a, config, actual_current,
                       v_cell, constrained, reason)

\* 3) enforce voltage limits
enforce_voltage_limits(requested_current_a, config, actual_current, constrained, reason, v_cell) ==
    IF Lt(v_cell, config.min_cell_voltage_v)
    THEN compute_power(requested_current_a, config, actual_current,
                       config.min_cell_voltage_v, TRUE, "voltage_limit")
    ELSE IF Lt(config.max_cell_voltage_v, v_cell)
    THEN compute_power(requested_current_a, config, actual_current,
                       config.max_cell_voltage_v, TRUE, "voltage_limit")
    ELSE compute_power(requested_current_a, config, actual_current,
                       v_cell, constrained, reason)

\* 2) the linear + resistive voltage model
model_voltage(actual_current, config, r_cell) ==
    LET scaling == IF Lt(Zero, config.base_current_a)
                   THEN Div(actual_current, config.base_current_a)
                   ELSE One
    IN  Add(Mul(config.base_cell_voltage_v, scaling), Mul(actual_current, r_cell))

\* 1) apply the current limit
apply_current_limit(requested_current_a, config, r_cell, actual_current) ==
    IF Lt(actual_current, requested_current_a)
    THEN enforce_voltage_limits(requested_current_a, config, actual_current,
                                TRUE, "current_limit",
                                model_voltage(actual_current, config, r_cell))
    ELSE enforce_voltage_limits(requested_current_a, config, actual_current,
                                FALSE, "none",
                                model_voltage(actual_current, config, r_cell))

\* The default None of effective_cell_resistance_ohm.
None == [none |-> TRUE]

\* compute_electrical_state as it would be if the current limit were only
\* flagged, the voltage and power being computed from the requested current.
compute_electrical_state_unclamped(requested_current_a, config, effective_cell_resistance_ohm) ==
    IF Lt(config.max_dc_current_a, requested_current_a)
    THEN enforce_voltage_limits(
             requested_current_a, config, requested_current_a, TRUE, "current_limit",
             model_voltage(requested_current_a, config,
                           IF effective_cell_resistance_ohm # None
                           THEN effective_cell_resistance_ohm
                           ELSE config.cell_resistance_ohm))
    ELSE enforce_voltage_limits(
             requested_current_a, config, requested_current_a, FALSE, "none",
             model_voltage(requested_current_a, config,
                           IF effective_cell_resistance_ohm # None
                           THEN effective_cell_resistance_ohm
                           ELSE config.cell_resistance_ohm))

compute_electrical_state(requested_current_a, config, effective_cell_resistance_ohm) ==
    apply_current_limit(requested_current_a, config,
                        IF effective_cell_resistance_ohm # None
                        THEN effective_cell_resistance_ohm
                        ELSE config.cell_resistance_ohm,
                        Min(requested_current_a, config.max_dc_current_a))

----------------------------------------------------------------------------
(* freecad_interface.py                                                    *)

\* The module FreeCAD when its import succeeded (FreeCAD is None otherwise).
FreeCADModule == [module |-> "FreeCAD"]

\* build_simple_cell as it would be without the try/except around the FreeCAD
\* calls: an exception of theirs reaches the caller.
build_simple_cell_unguarded(freecad, sodium_mass_kg, fails) ==
    IF freecad = None
    THEN "skipped"
    ELSE IF fails THEN "raised" ELSE "built"

\* FreeCADBridge.build_simple_cell: what the call did. It returns at once
\* when FreeCAD is None; otherwise it opens or creates the model inside a
\* try block, and fails tells whether one of the FreeCAD calls raises an
\* Exception, which the except clause prints and swallows.
build_simple_cell(freecad, sodium_mass_kg, fails) ==
    IF freecad = None
    THEN "skipped"
    ELSE IF fails THEN "error" ELSE "built"

----------------------------------------------------------------------------
(* sodium_logic.py                                                         *)

FARADAY_CONSTANT == Num(96485)
MOLAR_MASS_SODIUM == Q(2299, 100)
VALENCY == One

\* calculate_sodium_production as it would be without the efficiency factor.
calculate_sodium_production_ideal(amperes, hours, efficiency) ==
    LET seconds == Mul(hours, Num(3600))
        mass_grams == Div(Mul(Mul(amperes, seconds), MOLAR_MASS_SODIUM),
                          Mul(VALENCY, FARADAY_CONSTANT))
    IN  Div(mass_grams, Num(1000))

calculate_sodium_production(amperes, hours, efficiency) ==
    LET seconds == Mul(hours, Num(3600))
        mass_grams == Div(Mul(Mul(amperes, seconds), MOLAR_MASS_SODIUM),
                          Mul(VALENCY, FARADAY_CONSTANT))
    IN  Mul(Div(mass_grams, Num(1000)), efficiency)

\* <<total_revenue, total_cost, margin>>
calculate_finances(kg_produced, power_kw, hours, electricity_cost_per_kwh, sodium_price_per_kg) ==
    LET total_revenue == Mul(kg_produced, sodium_price_per_kg)
        total_energy_kwh == Mul(power_kw, hours)
        total_cost == Mul(total_energy_kwh, electricity_cost_per_kwh)
        margin == Sub(total_revenue, total_cost)
    IN  <<total_revenue, total_cost, margin>>

----------------------------------------------------------------------------
(* plant_model.py                                                          *)

SodiumLossConfig ==
    [evap_loss_low_temp_fraction |-> Q(1, 1000),
     evap_loss_mid_temp_fraction |-> Q(5, 1000),
     evap_loss_high_temp_fraction |-> Q(2, 100),
     recombined_loss_fraction |-> Q(1, 100),
     low_temp_c |-> Num(500),
     high_temp_c |-> Num(700)]

ReactionStoichConfig ==
    [molar_mass_na |-> Q(2299, 100),
     molar_mass_naoh |-> Num(40),
     molar_mass_cl2 |-> Q(70906, 1000),
     molar_mass_h2 |-> Q(2016, 1000)]

\* <<f_collected, f_recombined, f_evap>>
sodium_loss_fractions(temp_c, lcfg) ==
    LET f_evap == IF Le(temp_c, lcfg.low_temp_c)
                  THEN lcfg.evap_loss_low_temp_fraction
                  ELSE IF Le(temp_c, lcfg.high_temp_c)
                       THEN lcfg.evap_loss_mid_temp_fraction
                       ELSE lcfg.evap_loss_high_temp_fraction
        f_recombined == lcfg.recombined_loss_fraction
        f_collected == Max(Zero, Sub(Sub(One, f_recombined), f_evap))
    IN  <<f_collected, f_recombined, f_evap>>

\* PlantConfig() with its default field values.
PlantConfig ==
    [electrical |-> ElectricalConfig,
     electrodes |-> ElectrodeConfig,
     sodium_losses |-> SodiumLossConfig,
     reaction_stoich |-> ReactionStoichConfig,
     power_cost_per_kwh |-> Q(12, 100),
     sodium_price_per_kg |-> Q(350, 100)]

\* PlantState() with its default field values.
PlantState ==
    [time_hours |-> Zero,
     electrode_state |-> ElectrodeState,
     cumulative_na_produced_kg |-> Zero,
     cumulative_naoh_kg |-> Zero,
     cumulative_cl2_kg |-> Zero,
     cumulative_h2_kg |-> Zero,
     cumulative_revenue |-> Zero,
     cumulative_cost |-> Zero]

\* The empty dict {}.
EmptyDict == <<>>

\* The placeholder cell temperature of SodiumPlant.step.
cell_temp_c == Num(600)

\* step_elec_state as it would be if the solver were given the nominal cell
\* resistance, whatever the electrode wear.
step_elec_state_nominal(st, pcfg, requested_current_a) ==
    compute_electrical_state(requested_current_a, pcfg.electrical,
                             pcfg.electrical.cell_resistance_ohm)

\* The electrical state SodiumPlant.step computes from the pre-wear electrode state.
step_elec_state(st, pcfg, requested_current_a) ==
    LET resistance_multiplier ==
            effective_resistance_multiplier(st.electrode_state, pcfg.electrodes)
        effective_resistance ==
            Mul(pcfg.electrical.cell_resistance_ohm, resistance_multiplier)
    IN  compute_electrical_state(requested_current_a, pcfg.electrical,
                                 effective_resistance)

\* step_efficiency as it would be if the efficiency were read before the wear
\* update.
step_efficiency_pre_wear(es_before, es_after, ecfg) ==
    effective_efficiency(es_before, ecfg)

\* The efficiency SodiumPlant.step passes to calculate_sodium_production: it is
\* read after the electrode wear update (es_after), not before it (es_before).
step_efficiency(es_before, es_after, ecfg) == effective_efficiency(es_after, ecfg)

\* <<naoh_kg, cl2_kg, h2_kg>> derived from the theoretical sodium mass.
co_products(na_theoretical_kg, rs) ==
    LET na_theoretical_mol ==
            Max(Zero, Div(Mul(na_theoretical_kg, Num(1000)), rs.molar_mass_na))
        naoh_mol == Mul(na_theoretical_mol, One)
        cl2_mol == Mul(na_theoretical_mol, Q(1, 2))
        h2_mol == Mul(na_theoretical_mol, Q(1, 2))
    IN  <<Div(Mul(naoh_mol, rs.molar_mass_naoh), Num(1000)),
          Div(Mul(cl2_mol, rs.molar_mass_cl2), Num(1000)),
          Div(Mul(h2_mol, rs.molar_mass_h2), Num(1000))>>

\* The stages of the producing branch of SodiumPlant.step pass its local
\* variables on as parameters, in the order the method assigns them.

\* 7) the call of freecad.build_simple_cell and the returned dict, with the
\* plant state st1 after the cumulative updates
step_return(st1, requested_current_a, es, na_theoretical_kg, co, f, fin) ==
    [state |-> st1,
     result |->
       [time_hours |-> st1.time_hours,
        requested_current_a |-> requested_current_a,
        actual_current_a |-> es.actual_current_a,
        cell_voltage_v |-> es.cell_voltage_v,
        dc_power_kw |-> es.dc_power_kw,
        ac_power_kw |-> es.ac_power_kw,
        constrained |-> IF es.constrained THEN One ELSE Zero,
        na_theoretical_kg |-> na_theoretical_kg,
        na_collected_kg |-> Mul(na_theoretical_kg, f[1]),
        na_recombined_kg |-> Mul(na_theoretical_kg, f[2]),
        na_evap_kg |-> Mul(na_theoretical_kg, f[3]),
        naoh_step_kg |-> Mul(co[1], f[1]),
        cl2_step_kg |-> Mul(co[2], f[1]),
        h2_step_kg |-> Mul(co[3], f[1]),
        step_revenue |-> fin[1],
        step_cost |-> fin[2],
        step_margin |-> fin[3],
        cumulative_na_kg |-> st1.cumulative_na_produced_kg,
        cumulative_naoh_kg |-> st1.cumulative_naoh_kg,
        cumulative_cl2_kg |-> st1.cumulative_cl2_kg,
        cumulative_h2_kg |-> st1.cumulative_h2_kg,
        cumulative_revenue |-> st1.cumulative_revenue,
        cumulative_cost |-> st1.cumulative_cost],
     elec_state |-> es,
     build_simple_cell |-> [sodium_mass_kg |-> st1.cumulative_na_produced_kg]]

\* step_update as it would be if the co-product counters were advanced by the
\* co-product masses themselves, with no collection fraction.
step_update_unscaled(st, requested_current_a, dt_hours, es, electrode1, na_theoretical_kg, co, f, fin) ==
    step_return(
        [st EXCEPT
           !.electrode_state = electrode1,
           !.time_hours = Add(st.time_hours, dt_hours),
           !.cumulative_na_produced_kg =
               Add(st.cumulative_na_produced_kg, Mul(na_theoretical_kg, f[1])),
           !.cumulative_naoh_kg = Add(st.cumulative_naoh_kg, co[1]),
           !.cumulative_cl2_kg = Add(st.cumulative_cl2_kg, co[2]),
           !.cumulative_h2_kg = Add(st.cumulative_h2_kg, co[3]),
           !.cumulative_revenue = Add(st.cumulative_revenue, fin[1]),
           !.cumulative_cost = Add(st.cumulative_cost, fin[2])],
        requested_current_a, es, na_theoretical_kg, co, f, fin)

\* 6) cumulative updates
step_update(st, requested_current_a, dt_hours, es, electrode1, na_theoretical_kg, co, f, fin) ==
    step_return(
        [st EXCEPT
           !.electrode_state = electrode1,
           !.time_hours = Add(st.time_hours, dt_hours),
           !.cumulative_na_produced_kg =
               Add(st.cumulative_na_produced_kg, Mul(na_theoretical_kg, f[1])),
           !.cumulative_naoh_kg = Add(st.cumulative_naoh_kg, Mul(co[1], f[1])),
           !.cumulative_cl2_kg = Add(st.cumulative_cl2_kg, Mul(co[2], f[1])),
           !.cumulative_h2_kg = Add(st.cumulative_h2_kg, Mul(co[3], f[1])),
           !.cumulative_revenue = Add(st.cumulative_revenue, fin[1]),
           !.cumulative_cost = Add(st.cumulative_cost, fin[2])],
        requested_current_a, es, na_theoretical_kg, co, f, fin)

\* 5) finance over this step, from the collected sodium and the DC power
step_finance(st, pcfg, requested_current_a, dt_hours, es, electrode1, na_theoretical_kg, co, f) ==
    step_update(st, requested_current_a, dt_hours, es, electrode1,
                na_theoretical_kg, co, f,
                calculate_finances(Mul(na_theoretical_kg, f[1]), es.dc_power_kw,
                                   dt_hours, pcfg.power_cost_per_kwh,
                                   pcfg.sodium_price_per_kg))

\* co-products, then 4) loss fractions at the placeholder temperature
step_losses(st, pcfg, requested_current_a, dt_hours, es, electrode1, na_theoretical_kg) ==
    step_finance(st, pcfg, requested_current_a, dt_hours, es, electrode1,
                 na_theoretical_kg,
                 co_products(na_theoretical_kg, pcfg.reaction_stoich),
                 sodium_loss_fractions(cell_temp_c, pcfg.sodium_losses))

\* step_production as it would be if the tick that latches maintenance
\* stopped after the wear update and reported the maintenance status.
step_production_until_latch(st, pcfg, requested_current_a, dt_hours, es, electrode1) ==
    IF electrode1.in_maintenance
    THEN [state |-> [st EXCEPT !.electrode_state = electrode1,
                               !.time_hours = Add(st.time_hours, dt_hours)],
          result |-> [time_hours |-> Add(st.time_hours, dt_hours),
                      status |-> "maintenance"],
          elec_state |-> es,
          build_simple_cell |-> None]
    ELSE step_losses(st, pcfg, requested_current_a, dt_hours, es, electrode1,
                     calculate_sodium_production(
                         es.actual_current_a, dt_hours,
                         step_efficiency(st.electrode_state, electrode1, pcfg.electrodes)))

\* 3) Faraday-based theoretical Na production
step_production(st, pcfg, requested_current_a, dt_hours, es, electrode1) ==
    step_losses(st, pcfg, requested_current_a, dt_hours, es, electrode1,
                calculate_sodium_production(
                    es.actual_current_a, dt_hours,
                    step_efficiency(st.electrode_state, electrode1, pcfg.electrodes)))

\* 2) electrode wear update
step_wear(st, pcfg, requested_current_a, dt_hours, es) ==
    step_production(st, pcfg, requested_current_a, dt_hours, es,
                    ElectrodeState_step(st.electrode_state, pcfg.electrodes,
                                        es.actual_current_a, dt_hours))

\* SodiumPlant.step as it would be if a tick in maintenance put the electrodes
\* back into service.
SodiumPlant_step_autoclear(st, pcfg, old_elec, requested_current_a, dt_hours) ==
    IF Le(dt_hours, Zero)
    THEN [state |-> st, result |-> EmptyDict, elec_state |-> old_elec,
          build_simple_cell |-> None]
    ELSE IF st.electrode_state.in_maintenance
    THEN [state |-> [st EXCEPT
                       !.time_hours = Add(st.time_hours, dt_hours),
                       !.electrode_state = reset_after_maintenance(st.electrode_state)],
          result |-> [time_hours |-> Add(st.time_hours, dt_hours),
                      status |-> "maintenance"],
          elec_state |-> old_elec,
          build_simple_cell |-> None]
    ELSE step_wear(st, pcfg, requested_current_a, dt_hours,
                   step_elec_state(st, pcfg, requested_current_a))

\* SodiumPlant.step as it would be without the maintenance check.
SodiumPlant_step_unchecked(st, pcfg, old_elec, requested_current_a, dt_hours) ==
    IF Le(dt_hours, Zero)
    THEN [state |-> st, result |-> EmptyDict, elec_state |-> old_elec,
          build_simple_cell |-> None]
    ELSE step_wear(st, pcfg, requested_current_a, dt_hours,
                   step_elec_state(st, pcfg, requested_current_a))

\* SodiumPlant.step as it would be with the guard dt_hours < 0.
SodiumPlant_step_zero_dt(st, pcfg, old_elec, requested_current_a, dt_hours) ==
    IF Lt(dt_hours, Zero)
    THEN [state |-> st, result |-> EmptyDict, elec_state |-> old_elec,
          build_simple_cell |-> None]
    ELSE IF st.electrode_state.in_maintenance
    THEN [state |-> [st EXCEPT !.time_hours = Add(st.time_hours, dt_hours)],
          result |-> [time_hours |-> Add(st.time_hours, dt_hours),
                      status |-> "maintenance"],
          elec_state |-> old_elec,
          build_simple_cell |-> None]
    ELSE step_wear(st, pcfg, requested_current_a, dt_hours,
                   step_elec_state(st, pcfg, requested_current_a))

\* SodiumPlant.step: [state |-> the plant state after the call,
\*                    result |-> the returned dict,
\*                    elec_state |-> the electrical state computed (or the old one),
\*                    build_simple_cell |-> the arguments of the call of
\*                        freecad.build_simple_cell, None when it is not called].
SodiumPlant_step(st, pcfg, old_elec, requested_current_a, dt_hours) ==
    IF Le(dt_hours, Zero)
    THEN [state |-> st, result |-> EmptyDict, elec_state |-> old_elec,
          build_simple_cell |-> None]
    ELSE IF st.electrode_state.in_maintenance
    THEN [state |-> [st EXCEPT !.time_hours = Add(st.time_hours, dt_hours)],
          result |-> [time_hours |-> Add(st.time_hours, dt_hours),
                      status |-> "maintenance"],
          elec_state |-> old_elec,
          build_simple_cell |-> None]
    ELSE step_wear(st, pcfg, requested_current_a, dt_hours,
                   step_elec_state(st, pcfg, requested_current_a))

----------------------------------------------------------------------------
(* api_server.py                                                           *)

\* SodiumPlant(cfg): the object __init__ builds.
SodiumPlant(pcfg) == [cfg |-> pcfg, state |-> PlantState]

\* The values of _plant, _current_a and _dt_hours when the module is loaded.
ApiGlobalsAtImport ==
    /\ _plant = None
    /\ _current_a = Num(10000)
    /\ _dt_hours = One

\* No run loop has started, no request is in flight and no plant is held.
NoCallers == run = None /\ requests = None /\ plants = <<>>

\* _ensure_plant(): the value of _plant after the call, which is also the
\* plant returned.
_ensure_plant(plant) == IF plant = None THEN SodiumPlant(PlantConfig) ELSE plant

\* reset as it would be if it kept a plant that already exists.
reset_keep_plant(plant, current_a, dt_hours) ==
    [_plant |-> _ensure_plant(plant),
     _current_a |-> current_a,
     _dt_hours |-> dt_hours,
     response |-> [status |-> "ok", current_a |-> current_a, dt_hours |-> dt_hours]]

\* POST /api/reset: the globals after the call and the response.
reset(plant, current_a, dt_hours) ==
    [_plant |-> SodiumPlant(PlantConfig),
     _current_a |-> current_a,
     _dt_hours |-> dt_hours,
     response |-> [status |-> "ok", current_a |-> current_a, dt_hours |-> dt_hours]]

\* The for loop of step: n more calls of plant.step at the operating point,
\* result being the result of the last call made so far.
RECURSIVE step_loop(_, _, _, _, _)
step_loop(plant, n, current_a, dt_hours, last) ==
    IF n = 0
    THEN [_plant |-> plant, response |-> last]
    ELSE step_loop(
             [plant EXCEPT !.state =
                 SodiumPlant_step(plant.state, plant.cfg, EmptyDict,
                                  current_a, dt_hours).state],
             n - 1, current_a, dt_hours,
             SodiumPlant_step(plant.state, plant.cfg, EmptyDict,
                              current_a, dt_hours).result)

\* step as it would be if it made one call of plant.step whatever steps is.
step_single(plant, current_a, dt_hours, steps) ==
    step_loop(_ensure_plant(plant), 1, current_a, dt_hours, EmptyDict)

\* POST /api/step: the value of _plant after the call and the response.
step(plant, current_a, dt_hours, steps) ==
    step_loop(_ensure_plant(plant), IF steps > 1 THEN steps ELSE 1,
              current_a, dt_hours, EmptyDict)

\* GET /api/state: the value of _plant after the call and the response.
api_state(plant, current_a, dt_hours) ==
    [_plant |-> _ensure_plant(plant),
     response |->
       [time_hours |-> _ensure_plant(plant).state.time_hours,
        cumulative_na_kg |-> _ensure_plant(plant).state.cumulative_na_produced_kg,
        cumulative_naoh_kg |-> _ensure_plant(plant).state.cumulative_naoh_kg,
        cumulative_cl2_kg |-> _ensure_plant(plant).state.cumulative_cl2_kg,
        cumulative_h2_kg |-> _ensure_plant(plant).state.cumulative_h2_kg,
        cumulative_revenue |-> _ensure_plant(plant).state.cumulative_revenue,
        cumulative_cost |-> _ensure_plant(plant).state.cumulative_cost,
        current_a |-> current_a,
        dt_hours |-> dt_hours]]

----------------------------------------------------------------------------
(* The plant as a state machine: a SodiumPlant built with one of a few      *)
(* configurations, stepped and serviced by its caller.                      *)

\* Simulated hours after which the model stops stepping.
MaxHours == 3

\* A plant whose electrodes wear out within a few steps, with a minimum cell
\* voltage low enough that the model voltage is not always clamped:
\* PlantConfig(electrical=ElectricalConfig(min_cell_voltage_v=2.0),
\*             electrodes=ElectrodeConfig(amp_hours_limit=20000.0,
\*                 min_life_fraction_for_operation=0.25,
\*                 efficiency_at_new=1.0, efficiency_at_end_of_life=0.5),
\*             sodium_losses=SodiumLossConfig(evap_loss_mid_temp_fraction=0.1,
\*                 recombined_loss_fraction=0.1),
\*             power_cost_per_kwh=0.1, sodium_price_per_kg=2.0)
WearConfig ==
    [PlantConfig EXCEPT
       !.electrical.min_cell_voltage_v = Num(2),
       !.electrodes.amp_hours_limit = Num(20000),
       !.electrodes.min_life_fraction_for_operation = Q(1, 4),
       !.electrodes.efficiency_at_new = One,
       !.electrodes.efficiency_at_end_of_life = Q(1, 2),
       !.sodium_losses.evap_loss_mid_temp_fraction = Q(1, 10),
       !.sodium_losses.recombined_loss_fraction = Q(1, 10),
       !.power_cost_per_kwh = Q(1, 10),
       !.sodium_price_per_kg = Num(2)]

\* The same electrodes behind a small supply (8 kA, 30 kW, lossless rectifier)
\* with the default voltage window: the current, voltage and power limits bind.
LimitedConfig ==
    [WearConfig EXCEPT
       !.electrical.min_cell_voltage_v = Num(4),
       !.electrical.max_dc_current_a = Num(8000),
       !.electrical.max_power_kw = Num(30),
       !.electrical.rectifier_efficiency = One]

Configs == {WearConfig, LimitedConfig}

RequestedCurrents == {Num(-10000), Zero, Num(5000), Num(10000)}

StepSizes == {Num(-1), Zero, Num(1), Num(2)}

\* The calls of step the model makes: every current with every advancing
\* step size, and one current with the step sizes that do not advance (step
\* returns on dt_hours <= 0 before it looks at the current).
StepInputs ==
    {<<c, d>> : c \in RequestedCurrents, d \in {x \in StepSizes : Lt(Zero, x)}}
        \cup {<<Num(10000), d>> : d \in {x \in StepSizes : Le(x, Zero)}}

Init ==
    /\ cfg \in Configs
    /\ state = PlantState
    /\ op = [name |-> "init"]
    /\ elec_state = EmptyDict
    /\ result = EmptyDict
    /\ FreeCAD \in {None, FreeCADModule}
    /\ ApiGlobalsAtImport
    /\ NoCallers

\* What the caller of a method gets when an exception leaves the method.
Raised == [exception |-> "Exception"]

\* The outcome of the call of build_simple_cell a step makes, None when the
\* step makes no call.
step_build_simple_cell(call, fails) ==
    IF call = None
    THEN None
    ELSE [sodium_mass_kg |-> call.sodium_mass_kg,
          outcome |-> build_simple_cell(FreeCAD, call.sodium_mass_kg, fails)]

\* plant.step(requested_current_a, dt_hours) with the outcome r; fails is
\* whether FreeCAD, when it is there and called, raises.
StepEffect(r, requested_current_a, dt_hours, fails) ==
    /\ state' = r.state
    /\ elec_state' = r.elec_state
    /\ op' = [name |-> "step",
              requested_current_a |-> requested_current_a,
              dt_hours |-> dt_hours,
              build_simple_cell |-> step_build_simple_cell(r.build_simple_cell, fails)]
    /\ result' = IF op'.build_simple_cell # None
                    /\ op'.build_simple_cell.outcome = "raised"
                 THEN Raised
                 ELSE r.result

\* plant.step(requested_current_a, dt_hours) called on its own.
StepWith(r, requested_current_a, dt_hours, fails) ==
    /\ StepEffect(r, requested_current_a, dt_hours, fails)
    /\ UNCHANGED <<cfg, FreeCAD, api_vars, caller_vars>>

Step ==
    \E input \in StepInputs :
        LET r == SodiumPlant_step(state, cfg, elec_state, input[1], input[2])
        IN  /\ Le(Add(state.time_hours, input[2]), Num(MaxHours))
            /\ \E fails \in IF r.build_simple_cell # None /\ FreeCAD # None
                              THEN BOOLEAN ELSE {FALSE} :
                   StepWith(r, input[1], input[2], fails)

\* plant.state.electrode_state.reset_after_maintenance()
ResetAfterMaintenance ==
    /\ state' = [state EXCEPT
                   !.electrode_state = reset_after_maintenance(state.electrode_state)]
    /\ op' = [name |-> "reset_after_maintenance"]
    /\ UNCHANGED <<cfg, elec_state, result, FreeCAD, api_vars, caller_vars>>

Next == Step \/ ResetAfterMaintenance

Spec == Init /\ [][Next]_vars

----------------------------------------------------------------------------
(* compute_electrical_state on its own: the arguments are drawn in the      *)
(* initial state and one action applies the function to them.               *)

\* ElectricalConfig(max_power_kw=100.0): the power limit binds inside the
\* voltage window.
SmallSupplyConfig == [ElectricalConfig EXCEPT !.max_power_kw = Num(100)]

\* ElectricalConfig(base_current_a=0.0): the voltage scaling factor is 1.
NoBaseCurrentConfig == [ElectricalConfig EXCEPT !.base_current_a = Zero]

\* ElectricalConfig(max_dc_current_a=25000.0): the current limit binds inside
\* the voltage window.
LowCurrentConfig == [ElectricalConfig EXCEPT !.max_dc_current_a = Num(25000)]

ElectricalConfigs ==
    {ElectricalConfig, SmallSupplyConfig, NoBaseCurrentConfig, LowCurrentConfig,
     WearConfig.electrical, LimitedConfig.electrical}

ElecCurrents ==
    {Num(-10000), Zero, Num(5000), Num(10000), Num(20000), Num(30000),
     Num(50000), Num(120000)}

Resistances == {None, Q(1, 10000), Q(2, 10000)}

InitElec ==
    /\ cfg \in {[PlantConfig EXCEPT !.electrical = c] : c \in ElectricalConfigs}
    /\ state = PlantState
    /\ op \in [name : {"args"},
               requested_current_a : ElecCurrents,
               effective_cell_resistance_ohm : Resistances]
    /\ elec_state = EmptyDict
    /\ result = EmptyDict
    /\ FreeCAD = None
    /\ ApiGlobalsAtImport
    /\ NoCallers

\* compute_electrical_state(requested_current_a, config, effective_cell_resistance_ohm)
ComputeElectricalState ==
    /\ op.name = "args"
    /\ elec_state' = compute_electrical_state(op.requested_current_a, cfg.electrical,
                                              op.effective_cell_resistance_ohm)
    /\ op' = [op EXCEPT !.name = "compute_electrical_state"]
    /\ UNCHANGED <<cfg, state, result, FreeCAD, api_vars, caller_vars>>

NextElec == ComputeElectricalState

SpecElec == InitElec /\ [][NextElec]_vars

----------------------------------------------------------------------------
(* The API server: one process serving the requests of its clients one      *)
(* after the other, on a host without FreeCAD.                              *)

\* Simulated hours after which the model sends no more step requests to a
\* plant.
MaxApiHours == 10

Clients == {"a", "b"}

\* The bodies <<current_a, dt_hours>> of the reset requests: the default
\* operating point, the default current with a step size of zero and with a
\* negative one, and a current above max_dc_current_a with a quarter-hour
\* step, which wears the default electrodes out on the 36th tick.
ApiOperatingPoints ==
    {<<Num(10000), One>>, <<Num(10000), Zero>>, <<Num(10000), Q(-1, 2)>>,
     <<Num(120000), Q(1, 4)>>}

\* The steps of the step requests.
ApiSteps == {0, 1, 2}

InitApi ==
    /\ cfg = PlantConfig
    /\ state = PlantState
    /\ op = [name |-> "init"]
    /\ elec_state = EmptyDict
    /\ result = EmptyDict
    /\ FreeCAD = None
    /\ ApiGlobalsAtImport
    /\ NoCallers

\* POST /api/reset from a client; op keeps the plant the reset replaces.
ApiReset ==
    \E client \in Clients, req \in ApiOperatingPoints :
        /\ _plant' = reset(_plant, req[1], req[2])._plant
        /\ _current_a' = reset(_plant, req[1], req[2])._current_a
        /\ _dt_hours' = reset(_plant, req[1], req[2])._dt_hours
        /\ result' = reset(_plant, req[1], req[2]).response
        /\ op' = [name |-> "reset", client |-> client,
                  current_a |-> req[1], dt_hours |-> req[2],
                  replaced |-> _plant]
        /\ UNCHANGED <<cfg, state, elec_state, FreeCAD, caller_vars>>

\* POST /api/step from a client.
ApiStep ==
    \E client \in Clients, steps \in ApiSteps :
        /\ Le(Add(_ensure_plant(_plant).state.time_hours,
                  Mul(Num(IF steps > 1 THEN steps ELSE 1), _dt_hours)),
              Num(MaxApiHours))
        /\ _plant' = step(_plant, _current_a, _dt_hours, steps)._plant
        /\ result' = step(_plant, _current_a, _dt_hours, steps).response
        /\ op' = [name |-> "step", client |-> client, steps |-> steps]
        /\ UNCHANGED <<cfg, state, elec_state, FreeCAD, _current_a, _dt_hours, caller_vars>>

\* GET /api/state from a client.
ApiState ==
    \E client \in Clients :
        /\ _plant' = api_state(_plant, _current_a, _dt_hours)._plant
        /\ result' = api_state(_plant, _current_a, _dt_hours).response
        /\ op' = [name |-> "state", client |-> client]
        /\ UNCHANGED <<cfg, state, elec_state, FreeCAD, _current_a, _dt_hours, caller_vars>>

NextApi == ApiReset \/ ApiStep \/ ApiState

SpecApi == InitApi /\ [][NextApi]_vars

----------------------------------------------------------------------------
(* A caller that keeps ticking a fresh plant at one operating point, as the *)
(* run loops do, for as long as the simulated time allows.                  *)

\* Simulated hours after which the caller stops ticking.
MaxTickHours == 16

\* The runs <<config, requested_current_a, dt_hours>>: the two small plants
\* at positive currents and step sizes, among them currents the supply
\* limits cut down, and the default plant at a current above
\* max_dc_current_a. Every config has amp_hours_limit > 0 and
\* min_life_fraction_for_operation >= 0.
TickRuns ==
    {<<c, i, d>> : c \in Configs,
                   i \in {Num(1000), Num(2500), Num(5000), Num(10000)},
                   d \in {Q(1, 2), One, Num(2)}}
        \cup {<<PlantConfig, Num(120000), Q(1, 4)>>}

InitTicks ==
    \E r \in TickRuns :
        /\ cfg = r[1]
        /\ state = PlantState
        /\ op = [name |-> "init"]
        /\ elec_state = EmptyDict
        /\ result = EmptyDict
        /\ FreeCAD = None
        /\ ApiGlobalsAtImport
        /\ run = [requested_current_a |-> r[2], dt_hours |-> r[3], i |-> 0]
        /\ requests = None
        /\ plants = <<>>

\* The caller can tick once more.
CanTick == Le(Add(state.time_hours, run.dt_hours), Num(MaxTickHours))

\* plant.step(requested_current_a, dt_hours) at the operating point of the
\* run, in iteration i of the caller's loop.
Tick ==
    /\ CanTick
    /\ StepEffect(SodiumPlant_step(state, cfg, elec_state,
                                   run.requested_current_a, run.dt_hours),
                  run.requested_current_a, run.dt_hours, FALSE)
    /\ run' = [run EXCEPT !.i = @ + 1]
    /\ UNCHANGED <<cfg, FreeCAD, api_vars, requests, plants>>

NextTicks == Tick

\* The caller repeats the tick: a tick that can be taken is taken. This is
\* weak fairness of Tick, WF_vars(Tick), with ENABLED <<Tick>>_vars written
\* out: a tick can be taken, and changes time_hours, exactly when CanTick.
TickFairness == []<>(~CanTick) \/ []<><<Tick>>_vars

SpecTicks == InitTicks /\ [][NextTicks]_vars /\ TickFairness

----------------------------------------------------------------------------
(* The run loops: process_mvp.run_mvp and MainWindow.on_run_clicked build a *)
(* default plant, compute a number of steps and tick that many times,       *)
(* printing a line for every result that is not empty.                      *)

\* int(x): x truncated toward zero.
int(x) == IF x.n < 0 THEN -((-x.n) \div x.d) ELSE x.n \div x.d

\* The keys of the result the loop body formats into its line.
PrintedKeys ==
    {"time_hours", "actual_current_a", "cell_voltage_v", "na_collected_kg",
     "cumulative_na_kg"}

\* The scenarios <<caller, current_a, total_hours, dt_hours>>: the default
\* scenario of each caller, a short run at half the current limit, a run at
\* the current limit that wears the electrodes out on its 36th tick and goes
\* on, and for run_mvp, whose Scenario is not range-checked, step sizes of
\* zero and below; for on_run_clicked a total time below the step size.
Scenarios ==
    {<<c, Num(10000), Num(24), One>> : c \in {"run_mvp", "on_run_clicked"}}
        \cup {<<c, Num(50000), Num(4), Q(1, 2)>> : c \in {"run_mvp", "on_run_clicked"}}
        \cup {<<c, Num(100000), Num(10), Q(1, 4)>> : c \in {"run_mvp", "on_run_clicked"}}
        \cup {<<"run_mvp", Num(10000), Num(24), Zero>>,
              <<"run_mvp", Num(10000), Num(2), Num(-1)>>,
              <<"on_run_clicked", Num(10000), Q(1, 2), One>>}

InitRun ==
    \E sc \in Scenarios :
        /\ cfg = PlantConfig
        /\ state = PlantState
        /\ op = [name |-> "init"]
        /\ elec_state = EmptyDict
        /\ result = EmptyDict
        /\ FreeCAD = None
        /\ ApiGlobalsAtImport
        /\ run = [caller |-> sc[1], current_a |-> sc[2], total_hours |-> sc[3],
                  dt_hours |-> sc[4], pc |-> "start", steps |-> 0, i |-> 0,
                  exception |-> None]
        /\ requests = None
        /\ plants = <<>>

\* steps = int(total_hours / dt_hours), at least 1 in on_run_clicked; the
\* division raises ZeroDivisionError for a step size of zero.
RunStart ==
    /\ run.pc = "start"
    /\ run' = IF run.dt_hours = Zero
              THEN [run EXCEPT !.pc = "raised", !.exception = "ZeroDivisionError"]
              ELSE [run EXCEPT
                      !.pc = "loop",
                      !.steps = IF run.caller = "on_run_clicked"
                                   /\ int(Div(run.total_hours, run.dt_hours)) < 1
                                THEN 1
                                ELSE int(Div(run.total_hours, run.dt_hours))]
    /\ op' = [name |-> "start"]
    /\ UNCHANGED <<cfg, state, elec_state, result, FreeCAD, api_vars, requests, plants>>

\* The frame after the loop body has handled the result r of iteration i: an
\* empty result is skipped, any other is formatted into a line, which raises
\* KeyError if one of the keys is missing.
run_handle(frame, r) ==
    IF r = EmptyDict \/ PrintedKeys \subseteq DOMAIN r
    THEN [frame EXCEPT !.i = @ + 1]
    ELSE [frame EXCEPT !.pc = "raised", !.exception = "KeyError"]

\* One iteration of the loop: result = plant.step(...), then the loop body.
RunIterate ==
    /\ run.pc = "loop"
    /\ run.i < run.steps
    /\ StepEffect(SodiumPlant_step(state, cfg, elec_state, run.current_a, run.dt_hours),
                  run.current_a, run.dt_hours, FALSE)
    /\ run' = run_handle(run, result')
    /\ UNCHANGED <<cfg, FreeCAD, api_vars, requests, plants>>

\* The loop is over: the summary is printed from the plant state.
RunSummary ==
    /\ run.pc = "loop"
    /\ run.i >= run.steps
    /\ run' = [run EXCEPT !.pc = "done"]
    /\ op' = [name |-> "summary"]
    /\ UNCHANGED <<cfg, state, elec_state, result, FreeCAD, api_vars, requests, plants>>

NextRun == RunStart \/ RunIterate \/ RunSummary

SpecRun == InitRun /\ [][NextRun]_vars

----------------------------------------------------------------------------
(* The API server under concurrent requests. reset and step are plain       *)
(* functions, which the framework runs in worker threads, so that the       *)
(* statements of two handlers interleave. plants holds the SodiumPlant      *)
(* objects created so far, _plant refers to one of them by its position,    *)
(* and requests holds the frame of the handler each client has in flight.   *)
(* A tick of a plant is entered and left in two steps, so that two ticks    *)
(* can be seen to overlap.                                                  *)

\* The requests the clients send altogether.
MaxRequests == 3

\* The body <<current_a, dt_hours>> of the reset requests.
ThreadOperatingPoints == {<<Num(20000), Q(1, 2)>>}

\* The steps of the step requests.
ThreadSteps == {1, 2}

\* A reference to the plant object at position k of plants.
Ref(k) == [ref |-> k]

\* The frame of a client with no request in flight, sent requests sent.
IdleFrame(sent) ==
    [pc |-> "idle", sent |-> sent, current_a |-> None, dt_hours |-> None,
     n |-> 0, plant |-> None, entered |-> None, result |-> EmptyDict]

RECURSIVE SentBy(_)
\* The requests the clients of the set S have sent.
SentBy(S) == IF S = {} THEN 0 ELSE requests[CHOOSE c \in S : TRUE].sent + SentBy(S \ {CHOOSE c \in S : TRUE})

\* A SodiumPlant(PlantConfig()) object; installed is the operating point of
\* the reset request that creates it, or the import-time operating point
\* for a plant _ensure_plant creates.
NewPlant(current_a, dt_hours) ==
    [cfg |-> PlantConfig, state |-> PlantState,
     installed |-> <<current_a, dt_hours>>]

InitThreads ==
    /\ cfg = PlantConfig
    /\ state = PlantState
    /\ op = [name |-> "init"]
    /\ elec_state = EmptyDict
    /\ result = EmptyDict
    /\ FreeCAD = None
    /\ ApiGlobalsAtImport
    /\ run = None
    /\ requests = [c \in Clients |-> IdleFrame(0)]
    /\ plants = <<>>

\* What the handlers leave alone besides the variables named.
ThreadFrame == UNCHANGED <<cfg, state, op, elec_state, FreeCAD, run>>

\* POST /api/reset arrives from client c.
ReceiveReset(c) ==
    /\ requests[c].pc = "idle"
    /\ SentBy(Clients) < MaxRequests
    /\ \E req \in ThreadOperatingPoints :
           requests' = [requests EXCEPT ![c] =
                          [@ EXCEPT !.pc = "reset_plant", !.sent = @ + 1,
                                    !.current_a = req[1], !.dt_hours = req[2]]]
    /\ UNCHANGED <<result, api_vars, plants>>
    /\ ThreadFrame

\* _plant = SodiumPlant(PlantConfig())
ResetPlant(c) ==
    /\ requests[c].pc = "reset_plant"
    /\ plants' = Append(plants, NewPlant(requests[c].current_a, requests[c].dt_hours))
    /\ _plant' = Ref(Len(plants) + 1)
    /\ requests' = [requests EXCEPT ![c].pc = "reset_current"]
    /\ UNCHANGED <<result, _current_a, _dt_hours>>
    /\ ThreadFrame

\* _current_a = req.current_a
ResetCurrent(c) ==
    /\ requests[c].pc = "reset_current"
    /\ _current_a' = requests[c].current_a
    /\ requests' = [requests EXCEPT ![c].pc = "reset_dt"]
    /\ UNCHANGED <<result, _plant, _dt_hours, plants>>
    /\ ThreadFrame

\* _dt_hours = req.dt_hours, and the response is returned.
ResetDt(c) ==
    /\ requests[c].pc = "reset_dt"
    /\ _dt_hours' = requests[c].dt_hours
    /\ result' = [status |-> "ok", current_a |-> _current_a, dt_hours |-> _dt_hours']
    /\ requests' = [requests EXCEPT ![c] = IdleFrame(@.sent)]
    /\ UNCHANGED <<_plant, _current_a, plants>>
    /\ ThreadFrame

\* POST /api/step arrives from client c: the loop will run max(1, steps)
\* times.
ReceiveStep(c) ==
    /\ requests[c].pc = "idle"
    /\ SentBy(Clients) < MaxRequests
    /\ \E steps \in ThreadSteps :
           requests' = [requests EXCEPT ![c] =
                          [@ EXCEPT !.pc = "ensure_test", !.sent = @ + 1,
                                    !.n = IF steps > 1 THEN steps ELSE 1]]
    /\ UNCHANGED <<result, api_vars, plants>>
    /\ ThreadFrame

\* _ensure_plant: if _plant is None
EnsureTest(c) ==
    /\ requests[c].pc = "ensure_test"
    /\ requests' = [requests EXCEPT ![c].pc =
                      IF _plant = None THEN "ensure_create" ELSE "ensure_return"]
    /\ UNCHANGED <<result, api_vars, plants>>
    /\ ThreadFrame

\* _ensure_plant: _plant = SodiumPlant(PlantConfig())
EnsureCreate(c) ==
    /\ requests[c].pc = "ensure_create"
    /\ plants' = Append(plants, NewPlant(Num(10000), One))
    /\ _plant' = Ref(Len(plants) + 1)
    /\ requests' = [requests EXCEPT ![c].pc = "ensure_return"]
    /\ UNCHANGED <<result, _current_a, _dt_hours>>
    /\ ThreadFrame

\* plant = _ensure_plant(): return _plant
EnsureReturn(c) ==
    /\ requests[c].pc = "ensure_return"
    /\ requests' = [requests EXCEPT ![c] =
                      [@ EXCEPT !.pc = "load_current", !.plant = _plant]]
    /\ UNCHANGED <<result, api_vars, plants>>
    /\ ThreadFrame

\* The argument requested_current_a=_current_a of plant.step is evaluated.
LoadCurrent(c) ==
    /\ requests[c].pc = "load_current"
    /\ requests' = [requests EXCEPT ![c] =
                      [@ EXCEPT !.pc = "load_dt", !.current_a = _current_a]]
    /\ UNCHANGED <<result, api_vars, plants>>
    /\ ThreadFrame

\* The argument dt_hours=_dt_hours of plant.step is evaluated.
LoadDt(c) ==
    /\ requests[c].pc = "load_dt"
    /\ requests' = [requests EXCEPT ![c] =
                      [@ EXCEPT !.pc = "call", !.dt_hours = _dt_hours]]
    /\ UNCHANGED <<result, api_vars, plants>>
    /\ ThreadFrame

\* plant.step is entered: it finds the plant in the state entered.
TickBegin(c) ==
    /\ requests[c].pc = "call"
    /\ requests' = [requests EXCEPT ![c] =
                      [@ EXCEPT !.pc = "ticking",
                                !.entered = plants[requests[c].plant.ref].state]]
    /\ UNCHANGED <<result, api_vars, plants>>
    /\ ThreadFrame

\* plant.step of client c is left with the outcome r.
TickEndWith(c, r) ==
    /\ plants' = [plants EXCEPT ![requests[c].plant.ref].state = r.state]
    /\ requests' = [requests EXCEPT ![c] =
                      [@ EXCEPT !.pc = IF requests[c].n > 1 THEN "load_current" ELSE "return",
                                !.n = @ - 1,
                                !.entered = None,
                                !.result = r.result]]
    /\ UNCHANGED <<result, api_vars>>
    /\ ThreadFrame

\* plant.step is left. When no other tick has touched the plant meanwhile
\* the outcome is that of the state entered; when one has, the reads and
\* writes of the two ticks have interleaved, and the outcome is that of the
\* state entered (the other tick's writes are lost) or that of the state the
\* other tick left (its writes came first).
TickEnd(c) ==
    /\ requests[c].pc = "ticking"
    /\ \E base \in {requests[c].entered, plants[requests[c].plant.ref].state} :
           TickEndWith(c, SodiumPlant_step(base, plants[requests[c].plant.ref].cfg,
                                           EmptyDict, requests[c].current_a,
                                           requests[c].dt_hours))

\* return result
StepReturn(c) ==
    /\ requests[c].pc = "return"
    /\ result' = requests[c].result
    /\ requests' = [requests EXCEPT ![c] = IdleFrame(@.sent)]
    /\ UNCHANGED <<api_vars, plants>>
    /\ ThreadFrame

NextThreads ==
    \E c \in Clients :
        \/ ReceiveReset(c)
        \/ ResetPlant(c)
        \/ ResetCurrent(c)
        \/ ResetDt(c)
        \/ ReceiveStep(c)
        \/ EnsureTest(c)
        \/ EnsureCreate(c)
        \/ EnsureReturn(c)
        \/ LoadCurrent(c)
        \/ LoadDt(c)
        \/ TickBegin(c)
        \/ TickEnd(c)
        \/ StepReturn(c)

SpecThreads == InitThreads /\ [][NextThreads]_vars

----------------------------------------------------------------------------
(* Properties.                                                             *)

Electrode == state.electrode_state

\* The shapes of the dict SodiumPlant.step returns.
IsEmptyResult(r) == DOMAIN r = {}
IsStatusOnly(r) == DOMAIN r = {"time_hours", "status"}
IsFullResult(r) == "na_theoretical_kg" \in DOMAIN r

\* The last operation was plant.step with dt_hours > 0.
Ticked == op.name = "step" /\ Lt(Zero, op.dt_hours)

Counters(st) ==
    <<st.cumulative_na_produced_kg, st.cumulative_naoh_kg, st.cumulative_cl2_kg,
      st.cumulative_h2_kg, st.cumulative_revenue, st.cumulative_cost>>

\* C1: once in_maintenance is true it stays true across every operation other
\* than reset_after_maintenance, whatever current and dt_hours step is given.
C1_MaintenanceLatched ==
    [][(Electrode.in_maintenance /\ op'.name # "reset_after_maintenance")
         => Electrode'.in_maintenance]_vars

\* A tick with dt_hours > 0 was taken in maintenance and left it in maintenance.
C1_Witness ==
    /\ Ticked
    /\ IsStatusOnly(result)
    /\ Electrode.in_maintenance

\* amp_hours_limit * (1 - min_life_fraction_for_operation)
MaintenanceThreshold(ecfg) ==
    Mul(ecfg.amp_hours_limit, Sub(One, ecfg.min_life_fraction_for_operation))

\* C2: in_maintenance is true exactly when cumulative_amp_hours has reached
\* amp_hours_limit * (1 - min_life_fraction_for_operation), equality included:
\* the latch flips on the tick that first reaches the threshold, not before.
C2_LatchAtThreshold ==
    Electrode.in_maintenance
        <=> Le(MaintenanceThreshold(cfg.electrodes), Electrode.cumulative_amp_hours)

\* A producing tick brought cumulative_amp_hours exactly to the threshold.
C2_Witness ==
    /\ Ticked
    /\ IsFullResult(result)
    /\ Electrode.cumulative_amp_hours = MaintenanceThreshold(cfg.electrodes)
    /\ Electrode.in_maintenance

\* C3: a tick with dt_hours > 0 in maintenance adds dt_hours to time_hours,
\* changes nothing else of the plant state, and returns only time_hours and
\* the status 'maintenance'.
C3_MaintenanceTick ==
    [][(Electrode.in_maintenance /\ op'.name = "step" /\ Lt(Zero, op'.dt_hours))
         => /\ state' = [state EXCEPT !.time_hours = Add(@, op'.dt_hours)]
            /\ result' = [time_hours |-> state'.time_hours, status |-> "maintenance"]]_vars

\* A maintenance tick was taken on a plant that has produced before.
C3_Witness ==
    /\ Ticked
    /\ IsStatusOnly(result)
    /\ Lt(Zero, state.cumulative_na_produced_kg)
    /\ Lt(Zero, state.cumulative_cost)

\* C4: a tick with dt_hours <= 0 returns the empty dict and leaves the whole
\* plant state unchanged, running or in maintenance.
C4_NonAdvancingTick ==
    [][(op'.name = "step" /\ Le(op'.dt_hours, Zero))
         => state' = state /\ result' = EmptyDict]_vars

\* A tick with dt_hours <= 0 was taken in maintenance, after time had passed.
C4_Witness ==
    /\ op.name = "step"
    /\ Le(op.dt_hours, Zero)
    /\ Electrode.in_maintenance
    /\ Lt(Zero, state.time_hours)
    /\ IsEmptyResult(result)

\* C5: time_hours and every cumulative counter never decrease from one call
\* to the next, whatever requested_current and dt_hours are.
C5_CountersMonotone ==
    [][/\ Le(state.time_hours, state'.time_hours)
       /\ \A i \in 1..6 : Le(Counters(state)[i], Counters(state')[i])]_vars

\* C6: no tick decreases cumulative_amp_hours, increases the remaining life
\* fraction, or puts cumulative_amp_hours back to zero.
C6_WearMonotone ==
    [][op'.name = "step"
         => /\ Le(Electrode.cumulative_amp_hours, Electrode'.cumulative_amp_hours)
            /\ Le(remaining_life_fraction(Electrode', cfg.electrodes),
                  remaining_life_fraction(Electrode, cfg.electrodes))
            /\ (Electrode'.cumulative_amp_hours = Zero
                  => Electrode.cumulative_amp_hours = Zero)]_vars

\* A tick added wear without reaching the maintenance threshold.
C6_Witness ==
    /\ Ticked
    /\ IsFullResult(result)
    /\ Lt(Zero, Electrode.cumulative_amp_hours)
    /\ ~Electrode.in_maintenance

\* compute_electrical_state has been applied to the arguments held in op.
Computed == op.name = "compute_electrical_state"

\* The limits as the claims about compute_electrical_state state them, in
\* terms of the arguments: the current after the current limit, the model
\* voltage at that current, and the power before any power scaling.
ArgResistance ==
    IF op.effective_cell_resistance_ohm = None
    THEN cfg.electrical.cell_resistance_ohm
    ELSE op.effective_cell_resistance_ohm

CurrentBinds == Lt(cfg.electrical.max_dc_current_a, op.requested_current_a)

LimitedCurrent ==
    IF CurrentBinds THEN cfg.electrical.max_dc_current_a ELSE op.requested_current_a

ModelVoltage ==
    Add(Mul(cfg.electrical.base_cell_voltage_v,
            IF Lt(Zero, cfg.electrical.base_current_a)
            THEN Div(LimitedCurrent, cfg.electrical.base_current_a)
            ELSE One),
        Mul(LimitedCurrent, ArgResistance))

VoltageBinds ==
    \/ Lt(ModelVoltage, cfg.electrical.min_cell_voltage_v)
    \/ Lt(cfg.electrical.max_cell_voltage_v, ModelVoltage)

LimitedVoltage ==
    Max(cfg.electrical.min_cell_voltage_v,
        Min(cfg.electrical.max_cell_voltage_v, ModelVoltage))

UnscaledDcPower == Div(Mul(LimitedCurrent, LimitedVoltage), Num(1000))

UnscaledAcPower == Div(UnscaledDcPower, cfg.electrical.rectifier_efficiency)

PowerBinds == Lt(cfg.electrical.max_power_kw, UnscaledAcPower)

\* C7: the returned state has actual_current <= requested_current,
\* min_cell_voltage <= cell_voltage <= max_cell_voltage and ac_power <= max_power.
C7_WithinLimits ==
    Computed =>
        /\ Le(elec_state.actual_current_a, op.requested_current_a)
        /\ Le(cfg.electrical.min_cell_voltage_v, elec_state.cell_voltage_v)
        /\ Le(elec_state.cell_voltage_v, cfg.electrical.max_cell_voltage_v)
        /\ Le(elec_state.ac_power_kw, cfg.electrical.max_power_kw)

\* The power limit scaled the current down at a voltage inside the window.
C7_Witness ==
    /\ Computed
    /\ PowerBinds
    /\ ~VoltageBinds
    /\ Lt(elec_state.actual_current_a, op.requested_current_a)

\* C8: the reason is power_limit when the unscaled AC power exceeds max_power
\* (AC power pinned to max_power, current and DC power scaled by
\* max_power / ac_power), else voltage_limit when the model voltage was
\* clamped, else current_limit when the request exceeded max_dc_current, else
\* none; and constrained is true exactly when the reason is not none.
C8_ReasonPrecedence ==
    Computed =>
        /\ elec_state.constraint_reason =
              IF PowerBinds THEN "power_limit"
              ELSE IF VoltageBinds THEN "voltage_limit"
              ELSE IF CurrentBinds THEN "current_limit"
              ELSE "none"
        /\ elec_state.constrained <=> elec_state.constraint_reason # "none"
        /\ PowerBinds =>
              /\ elec_state.ac_power_kw = cfg.electrical.max_power_kw
              /\ elec_state.actual_current_a =
                    Mul(LimitedCurrent,
                        Div(cfg.electrical.max_power_kw, UnscaledAcPower))
              /\ elec_state.dc_power_kw =
                    Mul(UnscaledDcPower,
                        Div(cfg.electrical.max_power_kw, UnscaledAcPower))

\* All three limits bound and power_limit was reported.
C8_Witness ==
    /\ Computed
    /\ CurrentBinds
    /\ VoltageBinds
    /\ PowerBinds
    /\ elec_state.constraint_reason = "power_limit"

\* C9 as stated: a request above max_dc_current yields current_limit and
\* actual_current = max_dc_current, except that the reason is power_limit when
\* the voltage or the power limit also binds.
C9_PowerLimitWheneverAnotherLimitBinds ==
    (Computed /\ CurrentBinds) =>
        IF VoltageBinds \/ PowerBinds
        THEN elec_state.constraint_reason = "power_limit"
        ELSE /\ elec_state.constraint_reason = "current_limit"
             /\ elec_state.actual_current_a = cfg.electrical.max_dc_current_a

\* C9 (amended): for a request above max_dc_current, when the power limit does
\* not bind actual_current = max_dc_current and the reason is voltage_limit if
\* the model voltage was clamped and current_limit otherwise; when the power
\* limit binds the reason is power_limit and actual_current < max_dc_current.
C9_CurrentLimit ==
    (Computed /\ CurrentBinds) =>
        IF PowerBinds
        THEN /\ elec_state.constraint_reason = "power_limit"
             /\ Lt(elec_state.actual_current_a, cfg.electrical.max_dc_current_a)
        ELSE /\ elec_state.actual_current_a = cfg.electrical.max_dc_current_a
             /\ elec_state.constraint_reason =
                   IF VoltageBinds THEN "voltage_limit" ELSE "current_limit"

\* The request was cut to max_dc_current and the voltage clamp, not the power
\* limit, gave the reason.
C9_Witness ==
    /\ Computed
    /\ CurrentBinds
    /\ VoltageBinds
    /\ ~PowerBinds
    /\ elec_state.constraint_reason = "voltage_limit"
    /\ elec_state.actual_current_a = cfg.electrical.max_dc_current_a

C11_PreTickResistance ==
    [][(op'.name = "step" /\ IsFullResult(result'))
         => /\ elec_state' =
                  compute_electrical_state(
                      op'.requested_current_a, cfg.electrical,
                      Mul(cfg.electrical.cell_resistance_ohm,
                          effective_resistance_multiplier(Electrode, cfg.electrodes)))
            /\ result'.cell_voltage_v = elec_state'.cell_voltage_v
            /\ result'.actual_current_a = elec_state'.actual_current_a]_vars

\* A producing tick on worn electrodes reported an unclamped voltage above the
\* one of the nominal resistance and below the one of the wear it left behind.
C11_Witness ==
    /\ Ticked
    /\ IsFullResult(result)
    /\ Lt(model_voltage(result.actual_current_a, cfg.electrical,
                        cfg.electrical.cell_resistance_ohm),
          result.cell_voltage_v)
    /\ Lt(result.cell_voltage_v,
          model_voltage(result.actual_current_a, cfg.electrical,
                        Mul(cfg.electrical.cell_resistance_ohm,
                            effective_resistance_multiplier(Electrode, cfg.electrodes))))

\* C12: from any reachable electrode state reset_after_maintenance, followed
\* by no tick, yields cumulative_amp_hours = 0 and in_maintenance = false, and
\* calling it again gives the same state.
C12_ResetRoundTrip ==
    [][op'.name = "reset_after_maintenance"
         => /\ Electrode'.cumulative_amp_hours = Zero
            /\ ~Electrode'.in_maintenance
            /\ reset_after_maintenance(Electrode') = Electrode'
            /\ (op.name = "reset_after_maintenance" => state' = state)]_vars

\* The electrodes were reset after a tick spent in maintenance, and not ticked
\* since.
C12_Witness ==
    /\ op.name = "reset_after_maintenance"
    /\ IsStatusOnly(result)
    /\ Electrode.cumulative_amp_hours = Zero
    /\ ~Electrode.in_maintenance

\* The sodium collection fraction at the placeholder cell temperature.
CollectedFraction == sodium_loss_fractions(cell_temp_c, cfg.sodium_losses)[1]

\* C14: after every producing tick time_hours has grown by dt_hours, each
\* cumulative counter equals its pre-tick value plus the step quantity of the
\* result, each co-product step quantity is the co-product mass times the
\* sodium collection fraction, revenue and cost are those of the collected
\* sodium and the DC energy, and the cumulative fields of the result equal the
\* plant state after the tick.
C14_CountersAdvance ==
    [][(op'.name = "step" /\ IsFullResult(result'))
         => /\ state'.time_hours = Add(state.time_hours, op'.dt_hours)
            /\ Counters(state') =
                  <<Add(state.cumulative_na_produced_kg, result'.na_collected_kg),
                    Add(state.cumulative_naoh_kg, result'.naoh_step_kg),
                    Add(state.cumulative_cl2_kg, result'.cl2_step_kg),
                    Add(state.cumulative_h2_kg, result'.h2_step_kg),
                    Add(state.cumulative_revenue, result'.step_revenue),
                    Add(state.cumulative_cost, result'.step_cost)>>
            /\ result'.na_collected_kg =
                  Mul(result'.na_theoretical_kg, CollectedFraction)
            /\ <<result'.naoh_step_kg, result'.cl2_step_kg, result'.h2_step_kg>> =
                  [i \in 1..3 |->
                     Mul(co_products(result'.na_theoretical_kg, cfg.reaction_stoich)[i],
                         CollectedFraction)]
            /\ result'.step_revenue =
                  Mul(result'.na_collected_kg, cfg.sodium_price_per_kg)
            /\ result'.step_cost =
                  Mul(Mul(result'.dc_power_kw, op'.dt_hours), cfg.power_cost_per_kwh)
            /\ result'.time_hours = state'.time_hours
            /\ <<result'.cumulative_na_kg, result'.cumulative_naoh_kg,
                  result'.cumulative_cl2_kg, result'.cumulative_h2_kg,
                  result'.cumulative_revenue, result'.cumulative_cost>> =
                  Counters(state')]_vars

\* A producing tick added sodium and co-products to counters that were
\* already above zero.
C14_Witness ==
    /\ Ticked
    /\ IsFullResult(result)
    /\ Lt(Zero, result.na_collected_kg)
    /\ Lt(Zero, result.h2_step_kg)
    /\ Lt(result.na_collected_kg, state.cumulative_na_produced_kg)
    /\ Lt(result.h2_step_kg, state.cumulative_h2_kg)
    /\ Lt(result.step_cost, state.cumulative_cost)

\* The co-product masses the stoichiometric identity gives for a theoretical
\* sodium mass M: NaOH = M * (40.00/22.99), Cl2 = M * 0.5 * (70.906/22.99),
\* H2 = M * 0.5 * (2.016/22.99).
StoichiometricMasses(M) ==
    <<Mul(M, Div(Num(40), Q(2299, 100))),
      Mul(Mul(M, Q(1, 2)), Div(Q(70906, 1000), Q(2299, 100))),
      Mul(Mul(M, Q(1, 2)), Div(Q(2016, 1000), Q(2299, 100)))>>

\* The co-product step quantities of a result, and those of given masses.
CoProductSteps(r) == <<r.naoh_step_kg, r.cl2_step_kg, r.h2_step_kg>>
Collected(masses) == [i \in 1..3 |-> Mul(masses[i], CollectedFraction)]

\* C15: for any theoretical sodium mass M computed in a tick the co-product
\* masses are those of the stoichiometric identity (observed in the result
\* through the step quantities, which are the masses times the collection
\* fraction).
C15_StoichiometricIdentity ==
    [][(op'.name = "step" /\ IsFullResult(result'))
         => CoProductSteps(result') =
               Collected(StoichiometricMasses(result'.na_theoretical_kg))]_vars

\* C20: ElectrodeState.step leaves cumulative_amp_hours and in_maintenance
\* unchanged when in_maintenance is already true, or dt_hours <= 0, or the
\* current is <= 0; a tick of the plant with requested_current <= 0 therefore
\* adds no wear and does not enter maintenance.
C20_WearFrame ==
    [][/\ \A current_a \in RequestedCurrents, dt_hours \in StepSizes :
             (Electrode.in_maintenance \/ Le(dt_hours, Zero) \/ Le(current_a, Zero))
                 => ElectrodeState_step(Electrode, cfg.electrodes, current_a, dt_hours)
                        = Electrode
       /\ (/\ op'.name = "step"
           /\ \/ Electrode.in_maintenance
              \/ Le(op'.dt_hours, Zero)
              \/ Le(op'.requested_current_a, Zero))
              => Electrode' = Electrode]_vars

\* A running plant with worn electrodes took a producing tick at a negative
\* current and kept its wear.
C20_Witness ==
    /\ Ticked
    /\ IsFullResult(result)
    /\ Lt(op.requested_current_a, Zero)
    /\ Lt(result.actual_current_a, Zero)
    /\ Lt(Zero, Electrode.cumulative_amp_hours)
    /\ ~Electrode.in_maintenance

\* C19: a visualization sink that is absent or that fails never raises to the
\* caller of step and alters neither the plant state nor the returned result;
\* it is called only on producing ticks, after the cumulative counters are
\* updated, with the cumulative sodium figure they then hold.
C19_SinkIsFireAndForget ==
    [][op'.name = "step"
         => /\ result' # Raised
            /\ state' = SodiumPlant_step(state, cfg, elec_state,
                                         op'.requested_current_a, op'.dt_hours).state
            /\ result' = SodiumPlant_step(state, cfg, elec_state,
                                          op'.requested_current_a, op'.dt_hours).result
            /\ op'.build_simple_cell # None <=> IsFullResult(result')
            /\ op'.build_simple_cell # None
                  => /\ op'.build_simple_cell.sodium_mass_kg =
                           state'.cumulative_na_produced_kg
                     /\ op'.build_simple_cell.sodium_mass_kg =
                           Add(state.cumulative_na_produced_kg, result'.na_collected_kg)
                     /\ FreeCAD = None <=> op'.build_simple_cell.outcome = "skipped"
                     /\ op'.build_simple_cell.outcome \in {"skipped", "built", "error"}]_vars

\* FreeCAD failed during a producing tick that added sodium to a counter
\* already above zero, and the tick returned its full result.
C19_Witness ==
    /\ Ticked
    /\ IsFullResult(result)
    /\ FreeCAD # None
    /\ op.build_simple_cell # None
    /\ op.build_simple_cell.outcome = "error"
    /\ Lt(Zero, result.na_collected_kg)
    /\ Lt(result.na_collected_kg, state.cumulative_na_produced_kg)
    /\ op.build_simple_cell.sodium_mass_kg = result.cumulative_na_kg

----------------------------------------------------------------------------
(* Properties of the API server.                                           *)

\* The plant a request finds, the one _ensure_plant returns.
ApiPlant == _ensure_plant(_plant)

\* The state of a plant after n ticks at the installed operating point.
RECURSIVE StateAfterTicks(_, _)
StateAfterTicks(plant, n) ==
    IF n = 0
    THEN plant.state
    ELSE SodiumPlant_step(StateAfterTicks(plant, n - 1), plant.cfg, EmptyDict,
                          _current_a, _dt_hours).state

\* The result of the n-th of these ticks (n >= 1).
ResultOfTick(plant, n) ==
    SodiumPlant_step(StateAfterTicks(plant, n - 1), plant.cfg, EmptyDict,
                     _current_a, _dt_hours).result

\* The number of ticks a step request with the given steps makes.
TicksOf(steps) == IF steps > 1 THEN steps ELSE 1

\* C13: after a reset, whatever the plant it replaces, the plant is new at
\* t = 0 (time_hours, every cumulative counter and cumulative_amp_hours zero,
\* in_maintenance false, default configuration) and the operating point is
\* the current and dt_hours of the request; no later request other than a
\* reset changes the operating point, and the steps that follow tick with it.
C13_ResetStartsAfresh ==
    [][/\ op'.name = "reset"
           => /\ _plant'.cfg = PlantConfig
              /\ _plant'.state.time_hours = Zero
              /\ Counters(_plant'.state) = <<Zero, Zero, Zero, Zero, Zero, Zero>>
              /\ _plant'.state.electrode_state.cumulative_amp_hours = Zero
              /\ ~_plant'.state.electrode_state.in_maintenance
              /\ _current_a' = op'.current_a
              /\ _dt_hours' = op'.dt_hours
       /\ op'.name # "reset"
           => /\ _current_a' = _current_a
              /\ _dt_hours' = _dt_hours
       /\ (op'.name = "step" /\ IsFullResult(result'))
           => /\ result'.requested_current_a = _current_a
              /\ result'.time_hours =
                    Add(ApiPlant.state.time_hours,
                        Mul(Num(TicksOf(op'.steps)), _dt_hours))]_vars

\* A reset replaced a plant in maintenance whose counters were above zero.
C13_Witness ==
    /\ op.name = "reset"
    /\ op.replaced # None
    /\ op.replaced.state.electrode_state.in_maintenance
    /\ Lt(Zero, op.replaced.state.cumulative_na_produced_kg)
    /\ Lt(Zero, op.replaced.state.time_hours)
    /\ _plant.state = PlantState
    /\ _current_a = op.current_a

\* |x - v| < tol
Near(x, v, tol) == Lt(Sub(v, tol), x) /\ Lt(x, Add(v, tol))

\* Scenario A: the first tick of a fresh plant with the default
\* configuration, at 10,000 A for one hour, has just returned.
ScenarioA ==
    /\ op.name = "step"
    /\ IsFullResult(result)
    /\ _plant.cfg = PlantConfig
    /\ _dt_hours = One
    /\ result.time_hours = One
    /\ result.requested_current_a = Num(10000)

\* The loss fractions of scenario A: f_collected = 0.985, f_recombined = 0.01,
\* f_evap = 0.005, the mid-temperature bracket at 600 C.
ScenarioALosses ==
    /\ sodium_loss_fractions(cell_temp_c, _plant.cfg.sodium_losses) =
          <<Q(985, 1000), Q(1, 100), Q(5, 1000)>>
    /\ Lt(_plant.cfg.sodium_losses.low_temp_c, cell_temp_c)
    /\ Le(cell_temp_c, _plant.cfg.sodium_losses.high_temp_c)
    /\ result.na_collected_kg = Mul(result.na_theoretical_kg, Q(985, 1000))

Observed(client) == api_state(_plant, _current_a, _dt_hours).response

\* C17: a reset or step issued by one client never changes the plant state or
\* the operating point another client observes.
C17_SessionsIsolated ==
    [][op'.name \in {"reset", "step"}
         => \A client \in Clients \ {op'.client} :
               Observed(client)' = Observed(client)]_vars

----------------------------------------------------------------------------
(* Properties of the derived electrode values.                             *)

\* C21: in every electrode state the plant reaches by ticks and resets,
\* remaining_life_fraction lies in [0, 1], the resistance multiplier is at
\* least 1 and effective_efficiency lies between efficiency_at_end_of_life
\* and efficiency_at_new, also when a tick has carried cumulative_amp_hours
\* beyond amp_hours_limit.
C21_DerivedRanges ==
    /\ Le(Zero, remaining_life_fraction(Electrode, cfg.electrodes))
    /\ Le(remaining_life_fraction(Electrode, cfg.electrodes), One)
    /\ Le(One, effective_resistance_multiplier(Electrode, cfg.electrodes))
    /\ Le(cfg.electrodes.efficiency_at_end_of_life,
          effective_efficiency(Electrode, cfg.electrodes))
    /\ Le(effective_efficiency(Electrode, cfg.electrodes),
          cfg.electrodes.efficiency_at_new)

\* A single tick has overshot amp_hours_limit: the electrodes were below the
\* maintenance threshold before it and are beyond the limit after it, where
\* the derived values sit on their end-of-life bounds.
C21_Witness ==
    /\ op.name = "step"
    /\ IsFullResult(result)
    /\ Lt(cfg.electrodes.amp_hours_limit, Electrode.cumulative_amp_hours)
    /\ Electrode.in_maintenance
    /\ remaining_life_fraction(Electrode, cfg.electrodes) = Zero
    /\ effective_efficiency(Electrode, cfg.electrodes)
          = cfg.electrodes.efficiency_at_end_of_life
    /\ effective_resistance_multiplier(Electrode, cfg.electrodes)
          = cfg.electrodes.resistance_multiplier_at_end_of_life

----------------------------------------------------------------------------
(* The voltage of the returned operating point.                            *)

\* The linear-plus-resistive model voltage at a current, as the claim states
\* it: base_voltage * (current / base_current) + current * resistance, the
\* scaling factor being 1 if base_current <= 0.
ModelVoltageAt(current) ==
    Add(Mul(cfg.electrical.base_cell_voltage_v,
            IF Lt(Zero, cfg.electrical.base_current_a)
            THEN Div(current, cfg.electrical.base_current_a)
            ELSE One),
        Mul(current, ArgResistance))

\* C22: the returned cell_voltage_v is the model voltage at the returned
\* actual_current_a, clamped into [min_cell_voltage, max_cell_voltage], also
\* when the power limit has scaled the current down.
C22_VoltageSelfConsistent ==
    Computed =>
        elec_state.cell_voltage_v =
            Max(cfg.electrical.min_cell_voltage_v,
                Min(cfg.electrical.max_cell_voltage_v,
                    ModelVoltageAt(elec_state.actual_current_a)))

----------------------------------------------------------------------------
(* The tick that latches maintenance.                                      *)

\* The tick just taken set in_maintenance.
Latches == op'.name = "step" /\ ~Electrode.in_maintenance /\ Electrode'.in_maintenance

\* C24: the tick on which the maintenance latch flips returns the full step
\* record, without a status field, and adds its sodium, co-products, revenue
\* and cost to the cumulative counters; a status-only result is returned
\* only by a tick that finds the plant in maintenance, and the tick with
\* dt_hours > 0 that follows the latch returns one.
C24_LatchTickProduces ==
    [][/\ Latches
           => /\ IsFullResult(result')
              /\ "status" \notin DOMAIN result'
              /\ Lt(Zero, op'.dt_hours)
              /\ result'.na_theoretical_kg =
                    calculate_sodium_production(
                        result'.actual_current_a, op'.dt_hours,
                        effective_efficiency(Electrode', cfg.electrodes))
              /\ Counters(state') =
                    <<Add(state.cumulative_na_produced_kg, result'.na_collected_kg),
                      Add(state.cumulative_naoh_kg, result'.naoh_step_kg),
                      Add(state.cumulative_cl2_kg, result'.cl2_step_kg),
                      Add(state.cumulative_h2_kg, result'.h2_step_kg),
                      Add(state.cumulative_revenue, result'.step_revenue),
                      Add(state.cumulative_cost, result'.step_cost)>>
       /\ (op'.name = "step" /\ IsStatusOnly(result'))
           => Electrode.in_maintenance
       /\ (op'.name = "step" /\ Lt(Zero, op'.dt_hours) /\ Electrode.in_maintenance)
           => IsStatusOnly(result')]_vars

\* The latch has just flipped on a tick that produced sodium, co-products,
\* revenue and cost, on top of counters that were above zero before it.
C24_Witness ==
    /\ Ticked
    /\ Electrode.in_maintenance
    /\ IsFullResult(result)
    /\ Lt(Zero, result.na_collected_kg)
    /\ Lt(Zero, result.naoh_step_kg)
    /\ Lt(Zero, result.step_revenue)
    /\ Lt(Zero, result.step_cost)
    /\ Lt(result.na_collected_kg, state.cumulative_na_produced_kg)
    /\ result.cumulative_na_kg = state.cumulative_na_produced_kg

----------------------------------------------------------------------------
(* Repeated ticks.                                                         *)

\* C23: a fresh plant with amp_hours_limit > 0 and
\* min_life_fraction_for_operation >= 0, ticked again and again with one
\* requested current > 0 and one dt_hours > 0, is eventually in maintenance.
C23_EventuallyMaintenance == <>Electrode.in_maintenance

\* Maintenance was latched by the third tick or a later one of a run whose
\* current the power limit has scaled down, so that wear accumulated at a
\* positive current below the requested one.
C23_Witness ==
    /\ run # None
    /\ "requested_current_a" \in DOMAIN run
    /\ Lt(Zero, run.requested_current_a)
    /\ Lt(Zero, run.dt_hours)
    /\ Electrode.in_maintenance
    /\ IsFullResult(result)
    /\ run.i >= 3
    /\ elec_state.constraint_reason = "power_limit"
    /\ Lt(Zero, result.actual_current_a)
    /\ Lt(result.actual_current_a, run.requested_current_a)

----------------------------------------------------------------------------
(* The run loops.                                                          *)

\* C26: the run loops of run_mvp and on_run_clicked handle every result
\* step returns over a run without an error: the empty result, the full
\* step record and the status-only result of a plant in maintenance.
C26_RunLoopsHandleEveryResult ==
    op.name = "step" => run.pc # "raised"

----------------------------------------------------------------------------
(* Interleaved requests.                                                   *)

\* Client c is inside plant.step.
Ticking(c) == requests[c].pc = "ticking"

\* C25: whenever a tick of a step batch runs, its requested current and its
\* dt_hours are the operating point installed by the reset that created the
\* plant it runs on (the import-time operating point if no reset did), and
\* no other tick is running on that plant.
C25_BatchesAreIsolated ==
    \A c \in Clients :
        Ticking(c)
            => /\ <<requests[c].current_a, requests[c].dt_hours>>
                     = plants[requests[c].plant.ref].installed
               /\ \A d \in Clients \ {c} :
                     Ticking(d) => requests[d].plant # requests[c].plant

====
